---- MODULE Spec2Model ----
(***************************************************************************)
(* A model of cookie_shop_extra_credit.py: run_shop(cookies) asks three    *)
(* dietary questions, lists the filtered catalog, collects an order line   *)
(* by line from the console and prints the receipt.                        *)
(*                                                                         *)
(* A console line is a sequence of one-character strings, so str.strip,    *)
(* str.lower and int() are modelled by what they do to the characters.     *)
(* A price is held in cents; "{:.2f}" is modelled by Format2f, which       *)
(* yields the dollars and the two fraction digits that are printed.        *)
(***************************************************************************)
EXTENDS Integers, Sequences, FiniteSets, TLC

VARIABLES
    cookies,            \* run_shop's parameter: the catalog, a sequence of cookie records
    allergic_to_nuts,   \* welcome()'s three results
    allergic_to_gluten,
    diabetic,
    filtered_cookies,   \* display_cookies' local list
    orders,             \* solicit_order's accumulated list
    cookie_id,          \* solicit_order's cookie_id once parsed as an integer
    line,               \* the text most recently returned by input()
    out,                \* everything written to the console so far
    nread,              \* number of lines read at order-entry prompts
    pc                  \* where run_shop is

vars == <<cookies, allergic_to_nuts, allergic_to_gluten, diabetic, filtered_cookies,
          orders, cookie_id, line, out, nread, pc>>

\* Number of lines the customer may type at the order-entry prompts before
\* the line that ends order entry.
MaxInputs == 4

(***************************************************************************)
(* Text: str.strip, str.lower, int                                         *)
(***************************************************************************)
Whitespace == {" ", "\t"}

UpperCase == <<"A","B","C","D","E","F","G","H","I","J","K","L","M",
               "N","O","P","Q","R","S","T","U","V","W","X","Y","Z">>

LowerCase == <<"a","b","c","d","e","f","g","h","i","j","k","l","m",
               "n","o","p","q","r","s","t","u","v","w","x","y","z">>

DigitChars == <<"0","1","2","3","4","5","6","7","8","9">>

RECURSIVE lstrip(_)
lstrip(s) == IF s # <<>> /\ Head(s) \in Whitespace THEN lstrip(Tail(s)) ELSE s

RECURSIVE rstrip(_)
rstrip(s) ==
    IF s # <<>> /\ s[Len(s)] \in Whitespace THEN rstrip(SubSeq(s, 1, Len(s) - 1)) ELSE s

\* str.strip()
strip(s) == rstrip(lstrip(s))

lower_char(c) ==
    IF \E i \in 1..Len(UpperCase) : UpperCase[i] = c
    THEN LowerCase[CHOOSE i \in 1..Len(UpperCase) : UpperCase[i] = c]
    ELSE c

\* str.lower()
lower(s) == [i \in 1..Len(s) |-> lower_char(s[i])]

IsDigit(c) == \E i \in 1..Len(DigitChars) : DigitChars[i] = c

DigitValue(c) == (CHOOSE i \in 1..Len(DigitChars) : DigitChars[i] = c) - 1

RECURSIVE DigitsValue(_)
DigitsValue(s) ==
    IF s = <<>> THEN 0 ELSE 10 * DigitsValue(SubSeq(s, 1, Len(s) - 1)) + DigitValue(s[Len(s)])

AllDigits(s) == s # <<>> /\ \A i \in 1..Len(s) : IsDigit(s[i])

\* int(s) raises ValueError exactly when this is FALSE: int accepts surrounding
\* white space, one optional sign and at least one decimal digit.
IntParses(s) ==
    LET t == strip(s) IN
    /\ t # <<>>
    /\ IF Head(t) \in {"+", "-"} THEN AllDigits(Tail(t)) ELSE AllDigits(t)

\* The value int(s) returns when it does not raise.
IntValue(s) ==
    LET t == strip(s) IN
    IF Head(t) = "-" THEN 0 - DigitsValue(Tail(t))
    ELSE IF Head(t) = "+" THEN DigitsValue(Tail(t))
    ELSE DigitsValue(t)

(***************************************************************************)
(* The words the program compares console input against                    *)
(***************************************************************************)
YesWords == { <<"y","e","s">>, <<"y">> }

SentinelWords ==
    { <<"f","i","n","i","s","h","e","d">>, <<"d","o","n","e">>,
      <<"q","u","i","t">>, <<"e","x","i","t">> }

\* input(...).strip().lower() in ['yes', 'y']
IsYes(s) == lower(strip(s)) \in YesWords

\* Variant: the text is trimmed but not lower-cased.
CleanId_not_lowered(s) == strip(s)

\* input(...).strip().lower(), the text solicit_order works on
CleanId(s) == lower(strip(s))

\* cookie_id in ['finished', 'done', 'quit', 'exit']
IsSentinel(w) == w \in SentinelWords

(***************************************************************************)
(* The catalog                                                             *)
(***************************************************************************)
Cookie(i, t, p, sf, gf, cn) ==
    [id |-> i, title |-> t, description |-> "d", price |-> p,
     sugar_free |-> sf, gluten_free |-> gf, contains_nuts |-> cn]

\* Catalogs bake_cookies can return (prices in cents).
Catalogs ==
    LET c1 == Cookie(1, "Chocolate Chip", 250, FALSE, FALSE, TRUE)
        c2 == Cookie(2, "Oatmeal", 199, TRUE, TRUE, FALSE)
        c3 == Cookie(3, "Sugar", 5, FALSE, TRUE, FALSE)
        c4 == Cookie(2, "Almond", 1000, TRUE, FALSE, TRUE)
        c5 == Cookie(1, "Plain", 0, FALSE, FALSE, FALSE)
    IN  { <<>>, <<c2>>, <<c2, c1>>, <<c1, c3, c2>>, <<c4, c5>> }

\* Lines the customer types at the order-entry prompts.
Lines ==
    { <<" ","D","o","n","e"," ">>, <<"e","x","i","t">>,
      <<"1">>, <<" ","2">>, <<"0">>, <<"-","1">>, <<"x">> }

\* Lines the customer types at the three questions of welcome().
Answers == { <<"Y","e","s"," ">>, <<"y">>, <<"n","o">>, <<>> }

(***************************************************************************)
(* Console output                                                          *)
(***************************************************************************)
\* One print() call or one input() prompt: which text, and the values put in it.
Msg(t, title, n, amt) == [t |-> t, title |-> title, n |-> n, amt |-> amt]

Plain(t) == Msg(t, "", 0, <<>>)

\* f"{x:.2f}" of an amount of c cents: the dollars and the two fraction digits.
Format2f(c) == << c \div 100, (c % 100) \div 10, c % 10 >>

(***************************************************************************)
(* get_cookie_from_dict                                                    *)
(***************************************************************************)
\* Python's None.  A cookie that was found is returned as <<cookie>>, so that
\* "if cookie:" is the test r # None and the record itself is r[1].
None == <<>>

\* Variant: the function falls out of its loop with "return cookie", which
\* hands back the last cookie looked at instead of None.
get_cookie_from_dict_last(id, list) ==
    IF \E i \in DOMAIN list : list[i].id = id
    THEN <<list[CHOOSE i \in DOMAIN list :
                   list[i].id = id /\ \A j \in 1..(i - 1) : list[j].id # id]>>
    ELSE IF list = <<>> THEN None ELSE <<list[Len(list)]>>

RECURSIVE get_cookie_from_dict(_, _)
get_cookie_from_dict(id, list) ==
    IF list = <<>> THEN None
    ELSE IF Head(list).id = id THEN <<Head(list)>>
    ELSE get_cookie_from_dict(id, Tail(list))

(***************************************************************************)
(* welcome                                                                 *)
(***************************************************************************)
WelcomeText ==
    << Plain("welcome"), Plain("feed_each"), Plain("please_answer"),
       Plain("ask_nuts"), Plain("ask_gluten"), Plain("ask_diabetes") >>

(***************************************************************************)
(* display_cookies                                                         *)
(***************************************************************************)
\* The condition of the list comprehension.
FilterKeep(cookie, nuts, gluten, diab) ==
    /\ (~nuts \/ ~cookie.contains_nuts)
    /\ (~gluten \/ ~cookie.gluten_free)
    /\ (~diab \/ ~cookie.sugar_free)

\* Variant: each kept cookie is put at the front of the list.
FilterCookies_front(list, nuts, gluten, diab) ==
    LET kept == SelectSeq(list, LAMBDA c : FilterKeep(c, nuts, gluten, diab))
    IN  [i \in 1..Len(kept) |-> kept[Len(kept) + 1 - i]]

\* filtered_cookies
FilterCookies(list, nuts, gluten, diab) ==
    SelectSeq(list, LAMBDA c : FilterKeep(c, nuts, gluten, diab))

\* The four print() calls made for one listed cookie.
CookieText(cookie) ==
    << Msg("cookie", cookie.title, cookie.id, <<>>),
       Msg("description", cookie.description, 0, <<>>),
       Msg("price", "", 0, Format2f(cookie.price)),
       Plain("blank") >>

RECURSIVE ListingText(_)
ListingText(list) ==
    IF list = <<>> THEN <<>> ELSE CookieText(Head(list)) \o ListingText(Tail(list))

DisplayCookiesText(filtered) ==
    IF filtered # <<>>
    THEN <<Plain("here_are")>> \o ListingText(filtered)
    ELSE <<Plain("no_match")>>

(***************************************************************************)
(* solicit_order and solicit_quantity                                      *)
(***************************************************************************)
\* Variant: run_shop passes the listing to solicit_order.
OrderCatalog_listing(full, filtered) == filtered

\* run_shop passes the full catalog to solicit_order.
OrderCatalog(full, filtered) == full

IdPrompt == Plain("ask_id")

QtyPrompt(cookie) == Msg("ask_quantity", cookie.title, 0, <<>>)

\* Variant: the id is not looked up before the quantity is asked for.
IdInCatalog_unchecked(id, list) == TRUE

\* if get_cookie_from_dict(cookie_id, cookies):
IdInCatalog(id, list) == get_cookie_from_dict(id, list) # None

\* Variant: zero is accepted.
QuantityAccepted_zero(quantity) == quantity >= 0

\* solicit_quantity: if quantity > 0:
QuantityAccepted(quantity) == quantity > 0

\* solicit_order: if quantity > 0:
ReturnedPositive(quantity) == quantity > 0

\* Variant: a quantity for an id already ordered is added to the earlier line.
AppendLine_merged(list, id, quantity) ==
    IF \E k \in DOMAIN list : list[k].id = id
    THEN LET k == CHOOSE k \in DOMAIN list : list[k].id = id
         IN  [list EXCEPT ![k].quantity = @ + quantity]
    ELSE Append(list, [id |-> id, quantity |-> quantity])

\* orders.append({'id': cookie_id, 'quantity': quantity})
AppendLine(list, id, quantity) == Append(list, [id |-> id, quantity |-> quantity])

SubtotalMsg(cookie, quantity) ==
    Msg("subtotal", cookie.title, quantity, Format2f(quantity * cookie.price))

(***************************************************************************)
(* display_order_total                                                     *)
(***************************************************************************)
\* subtotal = cookie['price'] * quantity
LineSubtotal(cookie, quantity) == cookie.price * quantity

\* Variant: "=" in place of "+=".
Accumulate_overwrite(total_price, subtotal) == subtotal

\* total_price += subtotal
Accumulate(total_price, subtotal) == total_price + subtotal

\* The for loop from item k on: the text printed, the total reached, and
\* whether cookie['price'] raised because the lookup returned None.
RECURSIVE OrderLoop(_, _, _, _)
OrderLoop(order, list, k, total_price) ==
    IF k > Len(order) THEN [text |-> <<>>, total |-> total_price, raised |-> FALSE]
    ELSE LET r == get_cookie_from_dict(order[k].id, list) IN
         IF r = None THEN [text |-> <<>>, total |-> total_price, raised |-> TRUE]
         ELSE LET cookie == r[1]
                  quantity == order[k].quantity
                  subtotal == LineSubtotal(cookie, quantity)
                  rest == OrderLoop(order, list, k + 1, Accumulate(total_price, subtotal))
              IN  [text |-> <<Msg("line", cookie.title, quantity, Format2f(subtotal))>>
                                \o rest.text,
                   total |-> rest.total,
                   raised |-> rest.raised]

OrderTotalRaises(order, list) == order # <<>> /\ OrderLoop(order, list, 1, 0).raised

\* Variant: the sign-off is indented into the else branch.
OrderTotalText_signoff_in_else(order, list) ==
    IF order # <<>>
    THEN LET loop == OrderLoop(order, list, 1, 0) IN
         IF loop.raised THEN <<Plain("you_ordered")>> \o loop.text
         ELSE <<Plain("you_ordered")>> \o loop.text
                \o <<Msg("total", "", 0, Format2f(loop.total)), Plain("pay")>>
    ELSE <<Plain("no_items")>> \o <<Plain("signoff")>>

\* Everything display_order_total prints.
OrderTotalText(order, list) ==
    IF order # <<>>
    THEN LET loop == OrderLoop(order, list, 1, 0) IN
         IF loop.raised THEN <<Plain("you_ordered")>> \o loop.text
         ELSE <<Plain("you_ordered")>> \o loop.text
                \o <<Msg("total", "", 0, Format2f(loop.total)), Plain("pay")>>
                \o <<Plain("signoff")>>
    ELSE <<Plain("no_items")>> \o <<Plain("signoff")>>

(***************************************************************************)
(* run_shop                                                                *)
(***************************************************************************)
Init ==
    /\ cookies \in Catalogs
    /\ allergic_to_nuts = FALSE
    /\ allergic_to_gluten = FALSE
    /\ diabetic = FALSE
    /\ filtered_cookies = <<>>
    /\ orders = <<>>
    /\ cookie_id = 0
    /\ line = <<>>
    /\ out = <<>>
    /\ nread = 0
    /\ pc = "welcome"

\* welcome(): three print() calls, then three questions.
Welcome ==
    /\ pc = "welcome"
    /\ \E a1 \in Answers, a2 \in Answers, a3 \in Answers :
         /\ allergic_to_nuts' = IsYes(a1)
         /\ allergic_to_gluten' = IsYes(a2)
         /\ diabetic' = IsYes(a3)
         /\ line' = a3
    /\ out' = out \o WelcomeText
    /\ pc' = "display"
    /\ UNCHANGED <<cookies, filtered_cookies, orders, cookie_id, nread>>

\* display_cookies(...), then solicit_order up to its first input().
DisplayCookies ==
    /\ pc = "display"
    /\ filtered_cookies' = FilterCookies(cookies, allergic_to_nuts, allergic_to_gluten, diabetic)
    /\ out' = out \o DisplayCookiesText(filtered_cookies') \o <<IdPrompt>>
    /\ pc' = "id_prompt"
    /\ UNCHANGED <<cookies, allergic_to_nuts, allergic_to_gluten, diabetic,
                   orders, cookie_id, line, nread>>

\* One line read at the id prompt (line 130), handled up to the next input()
\* or to the return of solicit_order.
SolicitOrder ==
    /\ pc = "id_prompt"
    /\ \E l \in Lines :
         LET w == CleanId(l)
             list == OrderCatalog(cookies, filtered_cookies)
         IN
         /\ IsSentinel(w) \/ nread < MaxInputs
         /\ line' = l
         /\ nread' = nread + 1
         /\ IF IsSentinel(w)
            THEN /\ pc' = "total"
                 /\ UNCHANGED <<orders, cookie_id, out>>
            ELSE IF ~IntParses(w)
            THEN /\ out' = out \o <<Plain("invalid_input"), IdPrompt>>
                 /\ pc' = "id_prompt"
                 /\ UNCHANGED <<orders, cookie_id>>
            ELSE /\ cookie_id' = IntValue(w)
                 /\ orders' = orders
                 /\ IF IdInCatalog(cookie_id', list)
                    THEN \* solicit_quantity(cookie_id, cookies)
                         LET r == get_cookie_from_dict(cookie_id', list) IN
                         IF r # None
                         THEN /\ out' = out \o <<QtyPrompt(r[1])>>
                              /\ pc' = "qty_prompt"
                         ELSE \* returns 0, nothing is appended
                              /\ out' = out \o <<IdPrompt>>
                              /\ pc' = "id_prompt"
                    ELSE /\ out' = out \o <<Plain("invalid_id"), IdPrompt>>
                         /\ pc' = "id_prompt"
    /\ UNCHANGED <<cookies, allergic_to_nuts, allergic_to_gluten, diabetic, filtered_cookies>>

\* One line read at the quantity prompt (line 101), handled up to the next input().
SolicitQuantity ==
    /\ pc = "qty_prompt"
    /\ nread < MaxInputs
    /\ \E l \in Lines :
         LET cookie == get_cookie_from_dict(cookie_id, OrderCatalog(cookies, filtered_cookies))[1]
             t == strip(l)
         IN
         /\ line' = l
         /\ nread' = nread + 1
         /\ IF ~IntParses(t)
            THEN /\ out' = out \o <<Plain("invalid_input"), QtyPrompt(cookie)>>
                 /\ pc' = "qty_prompt"
                 /\ orders' = orders
            ELSE LET quantity == IntValue(t) IN
                 IF QuantityAccepted(quantity)
                 THEN /\ out' = out \o <<SubtotalMsg(cookie, quantity), IdPrompt>>
                      /\ orders' = IF ReturnedPositive(quantity)
                                   THEN AppendLine(orders, cookie_id, quantity)
                                   ELSE orders
                      /\ pc' = "id_prompt"
                 ELSE /\ out' = out \o <<Plain("positive"), QtyPrompt(cookie)>>
                      /\ pc' = "qty_prompt"
                      /\ orders' = orders
    /\ UNCHANGED <<cookies, allergic_to_nuts, allergic_to_gluten, diabetic,
                   filtered_cookies, cookie_id>>

\* display_order_total(order, cookies)
DisplayOrderTotal ==
    /\ pc = "total"
    /\ out' = out \o OrderTotalText(orders, cookies)
    /\ pc' = IF OrderTotalRaises(orders, cookies) THEN "raised" ELSE "done"
    /\ UNCHANGED <<cookies, allergic_to_nuts, allergic_to_gluten, diabetic,
                   filtered_cookies, orders, cookie_id, line, nread>>

Next ==
    \/ Welcome
    \/ DisplayCookies
    \/ SolicitOrder
    \/ SolicitQuantity
    \/ DisplayOrderTotal

Spec == Init /\ [][Next]_vars

(***************************************************************************)
(* Vocabulary of the properties                                            *)
(***************************************************************************)
Ids(list) == { list[i].id : i \in DOMAIN list }

\* The product of the catalog that carries this id (ids are unique in Catalogs).
ProductOf(id) == CHOOSE c \in { cookies[i] : i \in DOMAIN cookies } : c.id = id

Texts(t) == { i \in DOMAIN out : out[i].t = t }

\* A step that read one line at an order-entry prompt.
ReadAt(p) == pc = p /\ nread' = nread + 1

InOrderLoop(p) == p \in {"id_prompt", "qty_prompt"}

\* C1: a product of the catalog is shown by display_cookies if and only if
\* NOT(nut-allergic AND contains_nuts) AND NOT(gluten-allergic AND NOT gluten_free)
\* AND NOT(diabetic AND NOT sugar_free).
C1_ShownIffCompatible ==
    pc \notin {"welcome", "display"} =>
        \A i \in DOMAIN cookies :
            (\E j \in DOMAIN filtered_cookies : filtered_cookies[j] = cookies[i])
            <=> /\ ~(allergic_to_nuts /\ cookies[i].contains_nuts)
                /\ ~(allergic_to_gluten /\ ~cookies[i].gluten_free)
                /\ ~(diabetic /\ ~cookies[i].sugar_free)

\* C2: in every state, every line of the accumulated order has an id that is
\* in the full catalog and a quantity greater than zero.
C2_OrderLinesValid ==
    \A k \in DOMAIN orders : orders[k].id \in Ids(cookies) /\ orders[k].quantity > 0

\* An order of one line, collected after an unknown id and a non-positive
\* quantity were both turned down.
C2_Witness ==
    /\ pc = "total"
    /\ Len(orders) = 1
    /\ Texts("invalid_id") # {}
    /\ Texts("positive") # {}

\* The sum, over the products of the catalog, of the unit price times the
\* quantities of all the order lines that name the product.
RECURSIVE QuantityOf(_, _)
QuantityOf(id, order) ==
    IF order = <<>> THEN 0
    ELSE (IF Head(order).id = id THEN Head(order).quantity ELSE 0) + QuantityOf(id, Tail(order))

RECURSIVE SumOverCatalog(_, _)
SumOverCatalog(list, order) ==
    IF list = <<>> THEN 0
    ELSE Head(list).price * QuantityOf(Head(list).id, order) + SumOverCatalog(Tail(list), order)

C4_EndsExactlyOnSentinel ==
    [][ InOrderLoop(pc) =>
          /\ ~InOrderLoop(pc') <=>
                /\ ReadAt("id_prompt")
                /\ lower(strip(line')) \in { <<"f","i","n","i","s","h","e","d">>,
                                             <<"d","o","n","e">>,
                                             <<"q","u","i","t">>,
                                             <<"e","x","i","t">> }
          /\ ~InOrderLoop(pc') => (pc' = "total" /\ orders' = orders)
      ]_vars

\* Order entry ended by " Done " with one line collected.
C4_Witness ==
    /\ pc = "total"
    /\ line = <<" ","D","o","n","e"," ">>
    /\ Len(orders) = 1

\* C5: at the id prompt, a line that is no sentinel and no integer prints
\* "invalid input", and an integer that is no id of the catalog prints
\* "invalid id"; either way the order is unchanged, no quantity prompt is
\* issued and the id prompt is issued again.
C5_InvalidIdInputRecovered ==
    [][ (ReadAt("id_prompt") /\ lower(strip(line')) \notin SentinelWords) =>
          LET w == lower(strip(line')) IN
          /\ ~IntParses(w) =>
                /\ out' = out \o <<Plain("invalid_input"), Plain("ask_id")>>
                /\ orders' = orders
                /\ pc' = "id_prompt"
          /\ (IntParses(w) /\ IntValue(w) \notin Ids(cookies)) =>
                /\ out' = out \o <<Plain("invalid_id"), Plain("ask_id")>>
                /\ orders' = orders
                /\ pc' = "id_prompt"
      ]_vars

\* With one line already collected, a non-integer and then an unknown id have
\* just been turned down.
C5_Witness ==
    /\ pc = "id_prompt"
    /\ Len(orders) = 1
    /\ Len(out) > 4
    /\ SubSeq(out, Len(out) - 3, Len(out))
         = <<Plain("invalid_input"), Plain("ask_id"), Plain("invalid_id"), Plain("ask_id")>>

\* C6: at the quantity prompt a line that is no integer prints "invalid input"
\* and an integer <= 0 prints "must be positive", each followed by the same
\* prompt again; the first integer > 0 is the quantity returned, and its
\* subtotal, quantity times unit price, is printed once.
C6_FirstPositiveQuantity ==
    [][ ReadAt("qty_prompt") =>
          LET t == strip(line')
              cookie == ProductOf(cookie_id)
              again == Msg("ask_quantity", cookie.title, 0, <<>>)
          IN
          IF ~IntParses(t)
          THEN /\ out' = out \o <<Plain("invalid_input"), again>>
               /\ pc' = "qty_prompt" /\ orders' = orders
          ELSE IF IntValue(t) <= 0
          THEN /\ out' = out \o <<Plain("positive"), again>>
               /\ pc' = "qty_prompt" /\ orders' = orders
          ELSE /\ out' = out \o <<Msg("subtotal", cookie.title, IntValue(t),
                                      Format2f(IntValue(t) * cookie.price)),
                                  Plain("ask_id")>>
               /\ pc' = "id_prompt"
               /\ Len(orders') = Len(orders) + 1
               /\ orders'[Len(orders')].quantity = IntValue(t)
      ]_vars

\* A non-positive answer was turned down and the answer 2 that followed was
\* accepted, its subtotal being twice the unit price.
C6_Witness ==
    /\ pc = "id_prompt"
    /\ Len(orders) = 1
    /\ orders[1].quantity = 2
    /\ Len(out) > 4
    /\ out[Len(out) - 3] = Plain("positive")
    /\ out[Len(out) - 1].t = "subtotal"
    /\ out[Len(out) - 1].amt = Format2f(2 * ProductOf(orders[1].id).price)
    /\ ProductOf(orders[1].id).price > 0

\* C7: display_order_total prints the sign-off once, as its last output; for
\* an empty order it prints "no items ordered" and neither total nor payment
\* instruction; for a non-empty order it prints the lines in entry order, then
\* the total, then the payment instruction, and never "no items ordered".
C7_ReceiptLayout ==
    pc = "done" =>
        LET n == Len(orders)
            last == Len(out)
        IN  /\ out[last] = Plain("signoff")
            /\ Cardinality(Texts("signoff")) = 1
            /\ orders = <<>> =>
                 /\ out[last - 1] = Plain("no_items")
                 /\ Cardinality(Texts("no_items")) = 1
                 /\ Texts("total") \cup Texts("pay") \cup Texts("line") = {}
            /\ orders # <<>> =>
                 /\ Texts("no_items") = {}
                 /\ out[last - 1] = Plain("pay")
                 /\ out[last - 2].t = "total"
                 /\ Cardinality(Texts("total")) = 1
                 /\ Cardinality(Texts("pay")) = 1
                 /\ Texts("line") = (last - 2 - n)..(last - 3)
                 /\ \A k \in 1..n :
                      /\ out[last - 3 - n + k].n = orders[k].quantity
                      /\ out[last - 3 - n + k].title = ProductOf(orders[k].id).title

\* The receipt of an order of two lines for different products.
C7_Witness ==
    /\ pc = "done"
    /\ Len(orders) = 2
    /\ orders[1].id # orders[2].id

\* C8: the order holds one line per completed exchange, in the order of
\* completion: the only change ever made to it is the append of the line
\* {id, quantity} of the exchange just completed, also when the id is one that
\* an earlier line already names.
C8_OnlyAppended ==
    [][ IF ReadAt("qty_prompt") /\ IntParses(strip(line')) /\ IntValue(strip(line')) > 0
        THEN orders' = orders \o << [id |-> cookie_id, quantity |-> IntValue(strip(line'))] >>
        ELSE orders' = orders
      ]_vars

\* Two exchanges for the same product were completed and the customer is back
\* at the id prompt.
C8_Witness ==
    /\ pc = "id_prompt"
    /\ Len(orders) = 2
    /\ orders[1].id = orders[2].id
    /\ orders[1].quantity # orders[2].quantity

\* list is a subsequence of of: its items are items of of at strictly
\* increasing positions.
IsSubsequence(list, of) ==
    \E f \in [DOMAIN list -> DOMAIN of] :
        /\ \A i \in DOMAIN list : of[f[i]] = list[i]
        /\ \A i, j \in DOMAIN list : i < j => f[i] < f[j]

\* C9: the listing is a subsequence of the catalog (same relative order, each
\* product at most once, never longer than the catalog), and no step of
\* display_cookies, solicit_order or display_order_total changes the catalog.
C9_ListingIsSubsequence ==
    [][ /\ IsSubsequence(filtered_cookies', cookies)
        /\ Len(filtered_cookies') <= Len(cookies)
        /\ cookies' = cookies
      ]_vars

\* Two of three products are listed.
C9_Witness ==
    /\ pc = "id_prompt"
    /\ Len(cookies) = 3
    /\ Len(filtered_cookies) = 2

\* C10: an id of a product of the catalog that the listing left out is
\* accepted at the id prompt and leads to the quantity prompt; a positive
\* quantity then adds a line for it; and display_order_total never fails to
\* price a line.
C10_UnlistedIdCanBeOrdered ==
    /\ [][ LET w == lower(strip(line'))
               unlisted == Ids(cookies) \ Ids(filtered_cookies)
           IN
           /\ (ReadAt("id_prompt") /\ IntParses(w) /\ IntValue(w) \in unlisted) =>
                 /\ pc' = "qty_prompt"
                 /\ cookie_id' = IntValue(w)
                 /\ out' = out \o <<Msg("ask_quantity", ProductOf(IntValue(w)).title, 0, <<>>)>>
           /\ (ReadAt("qty_prompt") /\ cookie_id \in unlisted
                 /\ IntParses(strip(line')) /\ IntValue(strip(line')) > 0) =>
                 /\ Len(orders') = Len(orders) + 1
                 /\ orders'[Len(orders')].id = cookie_id
         ]_vars
    /\ [](pc # "raised")

\* A receipt was printed for an order with a line for an unlisted product.
C10_Witness ==
    /\ pc = "done"
    /\ \E k \in DOMAIN orders : orders[k].id \notin Ids(filtered_cookies)
    /\ Texts("line") # {}

====
